---- MODULE Spec2Model ----
(***************************************************************************)
(* Evaluation of tailwind.config.js as a CommonJS module.                  *)
(*                                                                         *)
(* The file is one statement sequence: line 2 requires the framework's     *)
(* default theme, lines 3-17 evaluate an object literal property by        *)
(* property (content, darkMode, theme, plugins, safelist) and assign it    *)
(* to module.exports.  Both require() calls either return the required     *)
(* module's value or throw, which abandons the evaluation and leaves       *)
(* module.exports as the loader created it (an empty object).              *)
(*                                                                         *)
(* JavaScript values are tagged records, so that "is an array", "is a      *)
(* string" and "is an object" are facts of a value that a formula can      *)
(* test:  strings [type, val], arrays [type, elems], objects [type, props] *)
(* (props: a function from own enumerable property names to values),       *)
(* required modules that are opaque here [type, id].                       *)
(***************************************************************************)
EXTENDS Naturals, Sequences, FiniteSets, TLC

VARIABLES pc, defaultTheme, lit, exports

vars == <<pc, defaultTheme, lit, exports>>

(* Bounds on the value require('tailwindcss/defaultTheme') may return *)
MaxThemeKeys == 3

MaxTokenVal == 2

---------------------------------------------------------------------------
(* JavaScript values *)

Undefined == [type |-> "undefined"]

Str(s) == [type |-> "string", val |-> s]

Arr(seq) == [type |-> "array", elems |-> seq]

Obj(f) == [type |-> "object", props |-> f]

Mod(id) == [type |-> "module", id |-> id]

Token(n) == [type |-> "token", val |-> n]

EmptyProps == [k \in {} |-> Undefined]

(* A property definition  key: value  inside an object literal *)
Put(f, k, v) == [x \in DOMAIN f \cup {k} |-> IF x = k THEN v ELSE f[x]]

(* A spread element  ...src  inside an object literal: every own enumerable *)
(* property of src is defined on the literal; undefined and null add none.  *)
Spread(f, src) ==
  IF src.type = "object"
  THEN [x \in DOMAIN f \cup DOMAIN src.props |->
          IF x \in DOMAIN src.props THEN src.props[x] ELSE f[x]]
  ELSE f

---------------------------------------------------------------------------
(* The values require('tailwindcss/defaultTheme') may return: an object of *)
(* theme sections, each section one of a few token values.                 *)

ThemeKeyNames == <<"colors", "spacing", "screens", "fontFamily", "borderRadius">>

ThemeKeys == {ThemeKeyNames[i] : i \in 1..MaxThemeKeys}

TokenValues == {Token(n) : n \in 1..MaxTokenVal}

Themes == UNION {[ks -> TokenValues] : ks \in SUBSET ThemeKeys}

---------------------------------------------------------------------------
(* The property values of the exported literal *)

content_empty == Arr(<<>>)

content == Arr(<<Str("./templates/*.html"), Str("./static/css/*.css")>>)

darkMode == Str("class")

theme(dt) == Obj(Put(EmptyProps, "extend", Obj(Spread(EmptyProps, dt))))

plugins(forms) == Arr(<<forms>>)

safelist_bare == Str("invisible")

safelist == Arr(<<Str("invisible")>>)

---------------------------------------------------------------------------
Init ==
  /\ pc = "line2"
  /\ defaultTheme = Undefined
  /\ lit = EmptyProps
  /\ exports = Obj(EmptyProps)

(* const defaultTheme = require('tailwindcss/defaultTheme') *)
RequireDefaultTheme ==
  /\ pc = "line2"
  /\ \E t \in Themes : defaultTheme' = Obj(t)
  /\ pc' = "content"
  /\ UNCHANGED <<lit, exports>>

(* content: ["./templates/*.html", "./static/css/*.css"], *)
EvalContent ==
  /\ pc = "content"
  /\ lit' = Put(lit, "content", content)
  /\ pc' = "darkMode"
  /\ UNCHANGED <<defaultTheme, exports>>

(* darkMode: 'class', *)
EvalDarkMode ==
  /\ pc = "darkMode"
  /\ lit' = Put(lit, "darkMode", darkMode)
  /\ pc' = "theme"
  /\ UNCHANGED <<defaultTheme, exports>>

(* theme: { extend: { ...defaultTheme } }, *)
EvalTheme ==
  /\ pc = "theme"
  /\ lit' = Put(lit, "theme", theme(defaultTheme))
  /\ pc' = "plugins"
  /\ UNCHANGED <<defaultTheme, exports>>

(* plugins: [ require('@tailwindcss/forms') ], *)
EvalPlugins ==
  /\ pc = "plugins"
  /\ lit' = Put(lit, "plugins", plugins(Mod("@tailwindcss/forms")))
  /\ pc' = "safelist"
  /\ UNCHANGED <<defaultTheme, exports>>

(* safelist: [ 'invisible' ] *)
EvalSafelist ==
  /\ pc = "safelist"
  /\ lit' = Put(lit, "safelist", safelist)
  /\ pc' = "assign"
  /\ UNCHANGED <<defaultTheme, exports>>

(* module.exports = { ... } *)
AssignExports ==
  /\ pc = "assign"
  /\ exports' = Obj(lit)
  /\ pc' = "done"
  /\ UNCHANGED <<defaultTheme, lit>>

(* Either require() throws (the package cannot be resolved, or its own     *)
(* evaluation throws): the rest of the file is not evaluated.              *)
RequireThrows ==
  /\ pc \in {"line2", "plugins"}
  /\ pc' = "threw"
  /\ UNCHANGED <<defaultTheme, lit, exports>>

Next ==
  \/ RequireDefaultTheme
  \/ EvalContent
  \/ EvalDarkMode
  \/ EvalTheme
  \/ EvalPlugins
  \/ EvalSafelist
  \/ AssignExports
  \/ RequireThrows

Spec == Init /\ [][Next]_vars

---------------------------------------------------------------------------
(* The configuration is loaded when the file's evaluation has completed *)
Loaded == pc = "done"

Has(v, k) == v.type = "object" /\ k \in DOMAIN v.props

IsArray(v) == v.type = "array"

IsString(v) == v.type = "string"

(* A glob pattern is a string of at least one character: every character   *)
(* is either a wildcard or matches itself.                                 *)
IsGlob(v) == IsString(v) /\ v.val # ""

(* C4: the loaded configuration's content is a non-empty sequence and at   *)
(* least one of its entries is a valid glob pattern.                       *)
C4_ContentNonEmptyGlob ==
  Loaded =>
    /\ Has(exports, "content")
    /\ IsArray(exports.props["content"])
    /\ Len(exports.props["content"].elems) > 0
    /\ \E i \in 1..Len(exports.props["content"].elems) :
         IsGlob(exports.props["content"].elems[i])

C4_Witness ==
  /\ Loaded
  /\ Has(exports, "content")
  /\ exports.props["content"].elems =
       <<Str("./templates/*.html"), Str("./static/css/*.css")>>

RecognizedKeys == {"content", "darkMode", "theme", "plugins", "safelist"}

DarkModeStrategies == {"media", "class"}

(* C5: the exported record has only recognized top-level keys; content,    *)
(* plugins and safelist are sequences, theme is an object with an extend   *)
(* sub-object, and darkMode is absent or one of the strategy values.       *)
C5_ExportShape ==
  Loaded =>
    /\ exports.type = "object"
    /\ DOMAIN exports.props \subseteq RecognizedKeys
    /\ \A k \in {"content", "plugins", "safelist"} :
         Has(exports, k) /\ IsArray(exports.props[k])
    /\ Has(exports, "theme")
    /\ Has(exports.props["theme"], "extend")
    /\ exports.props["theme"].props["extend"].type = "object"
    /\ Has(exports, "darkMode") =>
         /\ IsString(exports.props["darkMode"])
         /\ exports.props["darkMode"].val \in DarkModeStrategies

C5_Witness ==
  /\ Loaded
  /\ DOMAIN exports.props = RecognizedKeys
  /\ exports.props["darkMode"] = Str("class")
  /\ DOMAIN exports.props["theme"].props["extend"].props = ThemeKeys

====
